---- MODULE Spec2Model ----
(***************************************************************************)
(* Model of the employee list-query subsystem (handlers/employee.go):      *)
(* GetEmployeeList together with the write handlers that change the        *)
(* m_employee table underneath it.                                         *)
(*                                                                         *)
(* Representation of Go values:                                            *)
(*   - a Go string on which the code works character by character          *)
(*     (page, page_size, search, names, emails) is a sequence of           *)
(*     one-character strings; "" is << >>;                                 *)
(*   - a Go string that the code only compares and splices (sort_by,       *)
(*     sort_order, SQL fragments) is a TLA+ string;                        *)
(*   - a SQL text is the sequence of the fragments the code concatenates;  *)
(*   - Go int is a two's complement integer of IntBits bits;               *)
(*   - a nullable column is a record [Valid, V] like sql.NullString.       *)
(***************************************************************************)
EXTENDS Integers, Sequences, FiniteSets, TLC

\* ------------------------------------------------------------------------
\* Bounds of the model
\* ------------------------------------------------------------------------
\* width of the machine integer (scaled down from 64)
IntBits == 16
\* at most this many rows are ever inserted into m_employee
MaxEmployees == 2
\* the parameter study runs on tables of 0..MaxSeedRows rows
MaxSeedRows == 3
\* the store clock (CURRENT_TIMESTAMP) takes the values 0..MaxClock
MaxClock == 1
\* the single-record handlers on their own insert at most this many rows
MaxCrudEmployees == 1

MaxInt == 2^(IntBits - 1) - 1
MinInt == -(2^(IntBits - 1))

\* int arithmetic wraps around silently in Go
WrapInt(n) == ((n - MinInt) % (2^IntBits)) + MinInt

\* ------------------------------------------------------------------------
\* strconv
\* ------------------------------------------------------------------------
Digits == <<"0", "1", "2", "3", "4", "5", "6", "7", "8", "9">>

IsDigit(ch) == \E d \in 1..10 : Digits[d] = ch

DigitVal(ch) == (CHOOSE d \in 1..10 : Digits[d] = ch) - 1

\* magnitude of a digit string, saturated just above the range of int
RECURSIVE Magnitude(_, _)
Magnitude(s, acc) ==
    IF s = << >> THEN acc
    ELSE LET n == acc * 10 + DigitVal(Head(s))
         IN  Magnitude(Tail(s), IF n > MaxInt + 2 THEN MaxInt + 2 ELSE n)

\* strconv.Atoi: value and error. A syntax error gives 0; a value out of
\* range gives the nearest bound of int together with a range error.
Atoi(s) ==
    LET signed == s # << >> /\ Head(s) \in {"+", "-"}
        neg    == s # << >> /\ Head(s) = "-"
        body   == IF signed THEN Tail(s) ELSE s
        syntax == body = << >> \/ \E i \in 1..Len(body) : ~IsDigit(body[i])
        mag    == Magnitude(body, 0)
    IN  IF syntax THEN [n |-> 0, err |-> "syntax"]
        ELSE IF ~neg /\ mag > MaxInt THEN [n |-> MaxInt, err |-> "range"]
        ELSE IF neg /\ mag > MaxInt + 1 THEN [n |-> MinInt, err |-> "range"]
        ELSE [n |-> IF neg THEN -mag ELSE mag, err |-> "nil"]

\* strconv.Itoa for the placeholder numbers
Itoa(n) == Digits[n + 1]

\* decimal text of a non-negative number, as a character string
RECURSIVE DigitsOf(_)
DigitsOf(n) ==
    IF n < 10 THEN <<Digits[n + 1]>>
    ELSE Append(DigitsOf(n \div 10), Digits[(n % 10) + 1])

\* ------------------------------------------------------------------------
\* strings
\* ------------------------------------------------------------------------
ToUpper(s) ==
    CASE s = "asc"  -> "ASC"
      [] s = "desc" -> "DESC"
      [] s = "Desc" -> "DESC"
      [] s = "x"    -> "X"
      [] OTHER      -> s

LowerChar(ch) ==
    CASE ch = "A" -> "a"
      [] ch = "B" -> "b"
      [] OTHER    -> ch

LowerStr(s) == [i \in 1..Len(s) |-> LowerChar(s[i])]


\* ------------------------------------------------------------------------
\* The store: table m_employee and the clock behind CURRENT_TIMESTAMP
\* ------------------------------------------------------------------------
VARIABLES
    table,      \* the rows of m_employee
    nextId,     \* ids handed out so far (gen_random_uuid never repeats)
    now,        \* the store clock
    req,        \* the GetEmployeeList request in flight: method and URL query
    pc,         \* where GetEmployeeList stands: "idle", "counted", "done"
    loc,        \* the local variables of GetEmployeeList
    issued,     \* the statements this request has sent to the store
    fault,      \* which store call of this request failed, if any
    dirty,      \* a write was committed since the count statement
    resp,       \* the response written by GetEmployeeList
    wresp,      \* the last call of a write handler: its inputs and its response
    gresp,      \* the last call of GetEmployeeByID since the last committed write
    ltable,     \* the rows of the lookup table a listing handler reads
    lresp       \* the last call of a lookup listing handler

vars == <<table, nextId, now, req, pc, loc, issued, fault, dirty, resp, wresp,
          gresp, ltable, lresp>>

\* the variables GetEmployeeList and the write handlers never touch
readVars == <<gresp, ltable, lresp>>

\* a column value that is present, and SQL NULL
Val(v) == [Valid |-> TRUE, V |-> v]
NullString == [Valid |-> FALSE, V |-> << >>]
NullInt == [Valid |-> FALSE, V |-> 0]
NullTime == [Valid |-> FALSE, V |-> 0]

\* the columns of m_employee, in the order of the SELECT list
Columns == {"id", "employee_code", "prefix_name", "first_name", "last_name",
            "nickname", "email", "phone_number", "gender", "birth_date",
            "hire_date", "department", "position", "employment_type",
            "is_active", "created_at", "updated_at"}

\* INSERT INTO m_employee (...) VALUES ($1..$13) RETURNING id
InsertRow(id, a, t) ==
    [id              |-> id,
     employee_code   |-> Val(a[1]),
     prefix_name     |-> a[2],
     first_name      |-> a[3],
     last_name       |-> a[4],
     nickname        |-> Val(a[5]),
     email           |-> Val(a[6]),
     phone_number    |-> Val(a[7]),
     gender          |-> Val(a[8]),
     birth_date      |-> a[9],
     hire_date       |-> a[10],
     department      |-> Val(a[11]),
     position        |-> Val(a[12]),
     employment_type |-> Val(a[13]),
     is_active       |-> TRUE,
     created_at      |-> Val(t),
     updated_at      |-> Val(t)]

\* the statement setting created_at as well
UpdateRow_TouchCreated(row, a, t) ==
    [row EXCEPT
     !.employee_code   = Val(a[1]),
     !.prefix_name     = a[2],
     !.first_name      = a[3],
     !.last_name       = a[4],
     !.nickname        = Val(a[5]),
     !.email           = Val(a[6]),
     !.phone_number    = Val(a[7]),
     !.gender          = Val(a[8]),
     !.birth_date      = a[9],
     !.hire_date       = a[10],
     !.department      = Val(a[11]),
     !.position        = Val(a[12]),
     !.employment_type = Val(a[13]),
     !.is_active       = a[14],
     !.created_at      = Val(t),
     !.updated_at      = Val(t)]

\* UPDATE m_employee SET ... = ($1..$14), updated_at = CURRENT_TIMESTAMP
UpdateRow(row, a, t) ==
    [row EXCEPT
     !.employee_code   = Val(a[1]),
     !.prefix_name     = a[2],
     !.first_name      = a[3],
     !.last_name       = a[4],
     !.nickname        = Val(a[5]),
     !.email           = Val(a[6]),
     !.phone_number    = Val(a[7]),
     !.gender          = Val(a[8]),
     !.birth_date      = a[9],
     !.hire_date       = a[10],
     !.department      = Val(a[11]),
     !.position        = Val(a[12]),
     !.employment_type = Val(a[13]),
     !.is_active       = a[14],
     !.updated_at      = Val(t)]

\* ---- pattern matching of the store --------------------------------------
\* s LIKE p: % matches any run, _ any one character, \ quotes the next one
RECURSIVE LikeMatch(_, _)
LikeMatch(s, p) ==
    IF p = << >> THEN s = << >>
    ELSE IF Head(p) = "%"
        THEN LikeMatch(s, Tail(p)) \/ (s # << >> /\ LikeMatch(Tail(s), p))
    ELSE IF Head(p) = "_"
        THEN s # << >> /\ LikeMatch(Tail(s), Tail(p))
    ELSE IF Head(p) = "\\"
        THEN /\ Len(p) >= 2
             /\ s # << >>
             /\ Head(s) = p[2]
             /\ LikeMatch(Tail(s), Tail(Tail(p)))
    ELSE s # << >> /\ Head(s) = Head(p) /\ LikeMatch(Tail(s), Tail(p))

\* column ILIKE pattern; NULL ILIKE pattern is not true
ILike(col, p) == col.Valid /\ LikeMatch(LowerStr(col.V), LowerStr(p))

\* ---- ordering of the store ----------------------------------------------
Alphabet == <<"%", "@", "A", "B", "M", "_", "a", "b", "c", "d">>

CharRank(ch) == CHOOSE i \in 1..Len(Alphabet) : Alphabet[i] = ch

RECURSIVE StrLess(_, _)
StrLess(s, t) ==
    IF t = << >> THEN FALSE
    ELSE IF s = << >> THEN TRUE
    ELSE IF Head(s) = Head(t) THEN StrLess(Tail(s), Tail(t))
    ELSE CharRank(Head(s)) < CharRank(Head(t))

\* a < b in column col, ascending; NULL sorts after every value
ColLess(col, a, b) ==
    CASE col = "id" -> a.id < b.id
      [] col \in {"prefix_name", "first_name", "last_name"} ->
            StrLess(a[col], b[col])
      [] col \in {"employee_code", "nickname", "email", "phone_number",
                  "department", "position"} ->
            /\ a[col].Valid
            /\ (~b[col].Valid \/ StrLess(a[col].V, b[col].V))
      [] col = "is_active" -> ~a.is_active /\ b.is_active
      [] OTHER ->
            /\ a[col].Valid
            /\ (~b[col].Valid \/ a[col].V < b[col].V)

\* every sequence the store may return for ORDER BY col dir: rows with equal
\* keys come in any order
OrderBy(rows, col, dir) ==
    LET n == Cardinality(rows)
    IN  IF n = 0 THEN {<< >>} ELSE
        {f \in [1..n -> rows] :
            /\ \A i, j \in 1..n : i # j => f[i] # f[j]
            /\ \A i, j \in 1..n : i < j =>
                   IF dir = "DESC" THEN ~ColLess(col, f[i], f[j])
                   ELSE ~ColLess(col, f[j], f[i])}

\* the LIMIT left out: every row from the offset on
LimitOffset_NoLimit(seq, lim, off) ==
    IF off >= Len(seq) THEN << >> ELSE SubSeq(seq, off + 1, Len(seq))

\* LIMIT lim OFFSET off applied to a result sequence
LimitOffset(seq, lim, off) ==
    IF off >= Len(seq) THEN << >>
    ELSE SubSeq(seq, off + 1, IF off + lim > Len(seq) THEN Len(seq) ELSE off + lim)


\* ---- the statements of GetEmployeeList, as the store reads them ---------
SelectCount == "SELECT COUNT(*) FROM m_employee"

SelectColumns ==
    "SELECT id, employee_code, prefix_name, first_name, last_name, nickname, email, phone_number, gender, birth_date, hire_date, department, position, employment_type, is_active, created_at, updated_at FROM m_employee"

WhereFirstName == " WHERE (first_name ILIKE $"
OrLastName == " OR last_name ILIKE $"
OrEmail == " OR email ILIKE $"
OrderByKw == " ORDER BY "
LimitKw == " LIMIT $"
OffsetKw == " OFFSET $"

\* position of a fragment in a SQL text, 0 when it does not occur
IndexOf(text, frag) ==
    IF \E i \in 1..Len(text) : text[i] = frag
    THEN CHOOSE i \in 1..Len(text) : text[i] = frag
    ELSE 0

\* the argument a placeholder $n refers to; n is the fragment after the "$"
Placeholder(stmt, i) == stmt.args[DigitVal(stmt.text[i])]

\* the WHERE predicate of a statement, evaluated on one row
RowMatches(row, stmt) ==
    LET w == IndexOf(stmt.text, WhereFirstName)
    IN  IF w = 0 THEN TRUE
        ELSE \/ ILike(Val(row.first_name), Placeholder(stmt, w + 1))
             \/ ILike(Val(row.last_name), Placeholder(stmt, w + 3))
             \/ ILike(row.email, Placeholder(stmt, w + 5))

\* SELECT COUNT(*) ...: the number of rows the predicate selects
ExecCount(stmt, tbl) == Cardinality({r \in tbl : RowMatches(r, stmt)})

\* the store rejects a page statement whose ORDER BY is not a column followed
\* by a direction, or whose LIMIT or OFFSET argument is negative
PageStmtError(stmt) ==
    LET o == IndexOf(stmt.text, OrderByKw)
        l == IndexOf(stmt.text, LimitKw)
        f == IndexOf(stmt.text, OffsetKw)
    IN  \/ stmt.text[o + 1] \notin Columns
        \/ stmt.text[o + 3] \notin {"ASC", "DESC"}
        \/ Placeholder(stmt, l + 1) < 0
        \/ Placeholder(stmt, f + 1) < 0

\* SELECT ... ORDER BY ... LIMIT ... OFFSET ...: every result the store may give
ExecPage(stmt, tbl) ==
    LET o == IndexOf(stmt.text, OrderByKw)
        l == IndexOf(stmt.text, LimitKw)
        f == IndexOf(stmt.text, OffsetKw)
        sel == {r \in tbl : RowMatches(r, stmt)}
    IN  {LimitOffset(s, Placeholder(stmt, l + 1), Placeholder(stmt, f + 1)) :
            s \in OrderBy(sel, stmt.text[o + 1], stmt.text[o + 3])}


\* ------------------------------------------------------------------------
\* GetEmployeeList
\* ------------------------------------------------------------------------
\* url.Values.Get: the value of a parameter, "" when it is absent. The page,
\* page_size and search values are character strings, sort_by and sort_order
\* are compared and spliced whole.
QueryGet(q, k) ==
    IF k \in DOMAIN q THEN q[k]
    ELSE IF k \in {"sort_by", "sort_order"} THEN "" ELSE << >>

\* page, _ := strconv.Atoi(...); if page < 1 { page = 1 }
ParsePage(raw) ==
    LET page == Atoi(raw).n
    IN  IF page < 1 THEN 1 ELSE page

\* the upper limit left out
ParsePageSize_NoUpper(raw) ==
    LET pageSize == Atoi(raw).n
    IN  IF pageSize < 1 THEN 10 ELSE pageSize

\* pageSize, _ := strconv.Atoi(...); if pageSize < 1 || pageSize > 100 {...}
ParsePageSize(raw) ==
    LET pageSize == Atoi(raw).n
    IN  IF pageSize < 1 \/ pageSize > 100 THEN 10 ELSE pageSize

validSortFields ==
    {"id", "employee_code", "prefix_name", "first_name", "last_name", "email",
     "department", "position", "created_at", "updated_at", "is_active"}

\* the default left out: an empty sort_by stays empty
DefaultSortBy_Keep(sortBy) == sortBy

\* if sortBy == "" { sortBy = "created_at" }
DefaultSortBy(sortBy) == IF sortBy = "" THEN "created_at" ELSE sortBy

\* the check left out: every sort field passes
SortFieldRejected_Never(sortBy) == FALSE

\* if !validSortFields[sortBy] { 400 }
SortFieldRejected(sortBy) == sortBy \notin validSortFields

\* the comparison made without regard to letter case
DefaultSortOrder_Fold(sortOrder) ==
    IF sortOrder \in {"desc", "DESC", "Desc"} THEN "desc" ELSE "asc"

\* if sortOrder != "asc" && sortOrder != "desc" { sortOrder = "asc" }
DefaultSortOrder(sortOrder) ==
    IF sortOrder # "asc" /\ sortOrder # "desc" THEN "asc" ELSE sortOrder

\* the WHERE clause for search, with its placeholders numbered from argIndex
WhereClause(search, argIndex) ==
    IF search # << >>
    THEN <<WhereFirstName, Itoa(argIndex), OrLastName, Itoa(argIndex + 1),
           OrEmail, Itoa(argIndex + 2), ")">>
    ELSE << >>

\* searchPattern := "%" + search + "%", bound three times
SearchArgs(search) ==
    IF search # << >>
    THEN LET searchPattern == <<"%">> \o search \o <<"%">>
         IN  <<searchPattern, searchPattern, searchPattern>>
    ELSE << >>

\* argIndex after the search arguments
NextArgIndex(search) == IF search # << >> THEN 1 + 3 ELSE 1

CountQuery(whereClause) == <<SelectCount>> \o whereClause

\* offset := (page - 1) * pageSize
Offset(page, pageSize) == WrapInt((page - 1) * pageSize)

\* the page statement built without the WHERE clause
MainQuery_NoWhere(whereClause, sortBy, sortOrder, argIndex) ==
    <<SelectColumns>> \o
    <<OrderByKw, sortBy, " ", ToUpper(sortOrder),
      LimitKw, Itoa(argIndex), OffsetKw, Itoa(argIndex + 1)>>

MainQuery(whereClause, sortBy, sortOrder, argIndex) ==
    <<SelectColumns>> \o whereClause \o
    <<OrderByKw, sortBy, " ", ToUpper(sortOrder),
      LimitKw, Itoa(argIndex), OffsetKw, Itoa(argIndex + 1)>>

\* time.Format("2006-01-02") keeps the day, "2006-01-02 15:04:05" the day and
\* the time of day; a clock tick is half a day
FormatDate(t) == <<t \div 2>>
FormatDateTime(t) == <<t \div 2, t % 2>>

\* rows.Scan and the handling of the nullable fields, for one row
ScanEmployee(row) ==
    [ID             |-> row.id,
     EmployeeCode   |-> IF row.employee_code.Valid THEN row.employee_code.V ELSE << >>,
     PrefixName     |-> row.prefix_name,
     FirstName      |-> row.first_name,
     LastName       |-> row.last_name,
     Nickname       |-> IF row.nickname.Valid THEN row.nickname.V ELSE << >>,
     Email          |-> IF row.email.Valid THEN row.email.V ELSE << >>,
     PhoneNumber    |-> IF row.phone_number.Valid THEN row.phone_number.V ELSE << >>,
     Gender         |-> IF row.gender.Valid THEN row.gender.V ELSE 0,
     BirthDate      |-> IF row.birth_date.Valid THEN FormatDate(row.birth_date.V) ELSE << >>,
     HireDate       |-> IF row.hire_date.Valid THEN FormatDate(row.hire_date.V) ELSE << >>,
     Department     |-> IF row.department.Valid THEN row.department.V ELSE << >>,
     Position       |-> IF row.position.Valid THEN row.position.V ELSE << >>,
     EmploymentType |-> IF row.employment_type.Valid THEN row.employment_type.V ELSE 0,
     IsActive       |-> row.is_active,
     CreatedAt      |-> IF row.created_at.Valid THEN FormatDateTime(row.created_at.V) ELSE << >>,
     UpdatedAt      |-> IF row.updated_at.Valid THEN FormatDateTime(row.updated_at.V) ELSE << >>]

\* the birth date written in the form of the timestamps
ScanEmployeeByID_DateTime(row) ==
    [ScanEmployee(row) EXCEPT
     !.BirthDate = IF row.birth_date.Valid
                   THEN FormatDateTime(row.birth_date.V) ELSE << >>]

\* QueryRow(...).Scan and the handling of the nullable fields in
\* GetEmployeeByID
ScanEmployeeByID(row) ==
    [ID             |-> row.id,
     EmployeeCode   |-> IF row.employee_code.Valid THEN row.employee_code.V ELSE << >>,
     PrefixName     |-> row.prefix_name,
     FirstName      |-> row.first_name,
     LastName       |-> row.last_name,
     Nickname       |-> IF row.nickname.Valid THEN row.nickname.V ELSE << >>,
     Email          |-> IF row.email.Valid THEN row.email.V ELSE << >>,
     PhoneNumber    |-> IF row.phone_number.Valid THEN row.phone_number.V ELSE << >>,
     Gender         |-> IF row.gender.Valid THEN row.gender.V ELSE 0,
     BirthDate      |-> IF row.birth_date.Valid THEN FormatDate(row.birth_date.V) ELSE << >>,
     HireDate       |-> IF row.hire_date.Valid THEN FormatDate(row.hire_date.V) ELSE << >>,
     Department     |-> IF row.department.Valid THEN row.department.V ELSE << >>,
     Position       |-> IF row.position.Valid THEN row.position.V ELSE << >>,
     EmploymentType |-> IF row.employment_type.Valid THEN row.employment_type.V ELSE 0,
     IsActive       |-> row.is_active,
     CreatedAt      |-> IF row.created_at.Valid THEN FormatDateTime(row.created_at.V) ELSE << >>,
     UpdatedAt      |-> IF row.updated_at.Valid THEN FormatDateTime(row.updated_at.V) ELSE << >>]

\* the scan of the RETURNING row and the handling of the nullable fields in
\* UpdateEmployee
ScanUpdatedEmployee(row) ==
    [ID             |-> row.id,
     EmployeeCode   |-> IF row.employee_code.Valid THEN row.employee_code.V ELSE << >>,
     PrefixName     |-> row.prefix_name,
     FirstName      |-> row.first_name,
     LastName       |-> row.last_name,
     Nickname       |-> IF row.nickname.Valid THEN row.nickname.V ELSE << >>,
     Email          |-> IF row.email.Valid THEN row.email.V ELSE << >>,
     PhoneNumber    |-> IF row.phone_number.Valid THEN row.phone_number.V ELSE << >>,
     Gender         |-> IF row.gender.Valid THEN row.gender.V ELSE 0,
     BirthDate      |-> IF row.birth_date.Valid THEN FormatDate(row.birth_date.V) ELSE << >>,
     HireDate       |-> IF row.hire_date.Valid THEN FormatDate(row.hire_date.V) ELSE << >>,
     Department     |-> IF row.department.Valid THEN row.department.V ELSE << >>,
     Position       |-> IF row.position.Valid THEN row.position.V ELSE << >>,
     EmploymentType |-> IF row.employment_type.Valid THEN row.employment_type.V ELSE 0,
     IsActive       |-> row.is_active,
     CreatedAt      |-> IF row.created_at.Valid THEN FormatDateTime(row.created_at.V) ELSE << >>,
     UpdatedAt      |-> IF row.updated_at.Valid THEN FormatDateTime(row.updated_at.V) ELSE << >>]

\* var employees []Employee: a nil slice, and append
NilSlice == [isNil |-> TRUE, elems |-> << >>]
AppendSlice(sl, e) == [isNil |-> FALSE, elems |-> Append(sl.elems, e)]

\* for rows.Next() { ...; employees = append(employees, employee) }
RECURSIVE ScanRows(_, _)
ScanRows(rows, employees) ==
    IF rows = << >> THEN employees
    ELSE ScanRows(Tail(rows), AppendSlice(employees, ScanEmployee(Head(rows))))

\* int division of Go truncates toward zero
GoDiv(a, b) == IF a >= 0 THEN a \div b ELSE -((-a) \div b)

\* the division without rounding up
TotalPages_Floor(totalRecords, pageSize) == GoDiv(totalRecords, pageSize)

\* totalPages := (totalRecords + pageSize - 1) / pageSize
TotalPages(totalRecords, pageSize) ==
    GoDiv(WrapInt(totalRecords + pageSize - 1), pageSize)

\* encoding/json writes a nil slice as null and any other slice as an array
EncodeSlice(sl) ==
    IF sl.isNil THEN [null |-> TRUE, items |-> << >>]
    ELSE [null |-> FALSE, items |-> sl.elems]

\* total taken from the rows of the page instead of the count
EncodeListResponse_TotalFromRows(employees, totalRecords, page, pageSize, totalPages) ==
    [data        |-> EncodeSlice(employees),
     total       |-> Len(employees.elems),
     page        |-> page,
     page_size   |-> pageSize,
     total_pages |-> totalPages]

\* json.NewEncoder(w).Encode(response)
EncodeListResponse(employees, totalRecords, page, pageSize, totalPages) ==
    [data        |-> EncodeSlice(employees),
     total       |-> totalRecords,
     page        |-> page,
     page_size   |-> pageSize,
     total_pages |-> totalPages]

NoBody == [data |-> EncodeSlice(NilSlice), total |-> 0, page |-> 0,
           page_size |-> 0, total_pages |-> 0]

\* http.Error(w, msg, status)
HttpError(msg, status) == [status |-> status, msg |-> msg, body |-> NoBody]

NoResponse == [status |-> 0, msg |-> "", body |-> NoBody]

\* the locals of GetEmployeeList before anything is assigned
NoLocals ==
    [page |-> 0, pageSize |-> 0, sortBy |-> "", sortOrder |-> "",
     search |-> << >>, whereClause |-> << >>, args |-> << >>, argIndex |-> 1,
     totalRecords |-> 0, offset |-> 0, rows |-> << >>,
     employees |-> NilSlice]

Methods == {"GET", "POST"}

\* no request is being served
NoRequest == [method |-> "", query |-> << >>]

\* the error check after the count statement left out
CountFailed_Ignored(storeOk) == FALSE

\* err := DB.QueryRow(countQuery, args...).Scan(&totalRecords); if err != nil
CountFailed(storeOk) == ~storeOk

\* GetEmployeeList up to and including the count statement
GetEmployeeListCount(Q, S) ==
    /\ pc = "idle"
    /\ \E method \in Methods, query \in Q, storeOk \in S :
        LET page        == ParsePage(QueryGet(query, "page"))
            pageSize    == ParsePageSize(QueryGet(query, "page_size"))
            sortBy      == DefaultSortBy(QueryGet(query, "sort_by"))
            sortOrder   == DefaultSortOrder(QueryGet(query, "sort_order"))
            search      == QueryGet(query, "search")
            whereClause == WhereClause(search, 1)
            args        == SearchArgs(search)
            argIndex    == NextArgIndex(search)
            countStmt   == [text |-> CountQuery(whereClause), args |-> args]
            parsed      == [NoLocals EXCEPT !.page = page, !.pageSize = pageSize,
                                            !.sortBy = sortBy,
                                            !.sortOrder = QueryGet(query, "sort_order"),
                                            !.search = search]
            built       == [parsed EXCEPT !.sortOrder = sortOrder,
                                          !.whereClause = whereClause,
                                          !.args = args, !.argIndex = argIndex]
        IN  /\ req' = [method |-> method, query |-> query]
            /\ dirty' = FALSE
            /\ IF method # "GET"
               THEN /\ storeOk
                    /\ resp' = HttpError("Method not allowed", 405)
                    /\ loc' = NoLocals
                    /\ issued' = << >>
                    /\ fault' = "none"
                    /\ pc' = "done"
               ELSE IF SortFieldRejected(sortBy)
               THEN /\ storeOk
                    /\ resp' = HttpError("Invalid sort field", 400)
                    /\ loc' = parsed
                    /\ issued' = << >>
                    /\ fault' = "none"
                    /\ pc' = "done"
               ELSE /\ issued' = <<countStmt>>
                    /\ fault' = IF storeOk THEN "none" ELSE "count"
                    /\ IF CountFailed(storeOk)
                       THEN /\ resp' = HttpError("Error counting employees", 500)
                            /\ loc' = built
                            /\ pc' = "done"
                       ELSE /\ resp' = NoResponse
                            /\ loc' = [built EXCEPT !.totalRecords =
                                          IF storeOk THEN ExecCount(countStmt, table)
                                          ELSE 0]
                            /\ pc' = "counted"
    /\ UNCHANGED <<table, nextId, now, wresp, readVars>>

\* what the row cursor does after a page statement that succeeded: it delivers
\* every row; or the decoding of row number at fails; or iteration ends with
\* an error after at rows
RowOutcomes(rows) ==
    {[kind |-> "none", at |-> Len(rows)]}
        \cup {[kind |-> "scan", at |-> k] : k \in 1..Len(rows)}
        \cup {[kind |-> "iter", at |-> k] : k \in 0..Len(rows)}

\* the rows that reach the loop body and are decoded without error
Decoded(rows, outcome) ==
    SubSeq(rows, 1, IF outcome.kind = "scan" THEN outcome.at - 1 ELSE outcome.at)

\* the check of rows.Err() left out
RowsErr_Unchecked(outcome) == FALSE

\* if err = rows.Err(); err != nil
RowsErr(outcome) == outcome.kind = "iter"

\* the behaviours of the store: it answers a statement or fails it, and a
\* cursor ends in one of three ways
StoreMayFail == BOOLEAN
StoreUp == {TRUE}
CursorMayFail == {"none", "scan", "iter"}
CursorSound == {"none"}

\* the two arguments appended in the wrong order
PageArgs_Swapped(args, pageSize, offset) == args \o <<offset, pageSize>>

\* args = append(args, pageSize, offset)
PageArgs(args, pageSize, offset) == args \o <<pageSize, offset>>

\* GetEmployeeList from the page statement to the response
GetEmployeeListPage(S, K) ==
    /\ pc = "counted"
    /\ \E storeOk \in S :
        LET offset   == Offset(loc.page, loc.pageSize)
            mainStmt == [text |-> MainQuery(loc.whereClause, loc.sortBy,
                                            loc.sortOrder, loc.argIndex),
                         args |-> PageArgs(loc.args, loc.pageSize, offset)]
        IN  /\ issued' = Append(issued, mainStmt)
            /\ pc' = "done"
            /\ IF ~storeOk \/ PageStmtError(mainStmt)
               THEN /\ resp' = HttpError("Error querying employees", 500)
                    /\ loc' = [loc EXCEPT !.offset = offset, !.args = mainStmt.args]
                    /\ fault' = IF storeOk THEN "none" ELSE "query"
               ELSE \E rows \in ExecPage(mainStmt, table) :
                    \E outcome \in {o \in RowOutcomes(rows) : o.kind \in K} :
                    LET employees  == ScanRows(Decoded(rows, outcome), NilSlice)
                        totalPages == TotalPages(loc.totalRecords, loc.pageSize)
                    IN  /\ loc' = [loc EXCEPT !.offset = offset,
                                              !.args = mainStmt.args,
                                              !.rows = rows,
                                              !.employees = employees]
                        /\ fault' = outcome.kind
                        /\ resp' =
                              IF outcome.kind = "scan"
                              THEN HttpError("Error scanning employee", 500)
                              ELSE IF RowsErr(outcome)
                              THEN HttpError("Error iterating employees", 500)
                              ELSE [status |-> 200, msg |-> "",
                                    body |-> EncodeListResponse(employees,
                                                loc.totalRecords, loc.page,
                                                loc.pageSize, totalPages)]
    /\ UNCHANGED <<table, nextId, now, req, dirty, wresp, readVars>>

\* GetEmployeeList returns: the request and its locals are gone
GetEmployeeListReturn ==
    /\ pc = "done"
    /\ pc' = "idle"
    /\ req' = NoRequest
    /\ loc' = NoLocals
    /\ issued' = << >>
    /\ fault' = "none"
    /\ dirty' = FALSE
    /\ resp' = NoResponse
    /\ UNCHANGED <<table, nextId, now, wresp, readVars>>


\* ------------------------------------------------------------------------
\* The write handlers
\* ------------------------------------------------------------------------
\* the zero value of the Employee struct, which json.Decode fills in
EmployeeZero ==
    [ID |-> 0, EmployeeCode |-> << >>, PrefixName |-> << >>,
     FirstName |-> << >>, LastName |-> << >>, Nickname |-> << >>,
     Email |-> << >>, PhoneNumber |-> << >>, Gender |-> 0,
     BirthDate |-> << >>, HireDate |-> << >>, Department |-> << >>,
     Position |-> << >>, EmploymentType |-> 0, IsActive |-> FALSE,
     CreatedAt |-> << >>, UpdatedAt |-> << >>]

BodyAb == [EmployeeZero EXCEPT !.PrefixName = <<"M">>,
                               !.FirstName = <<"A", "b">>,
                               !.LastName = <<"d">>]

BodyC == [EmployeeZero EXCEPT !.PrefixName = <<"M">>,
                              !.FirstName = <<"c">>,
                              !.LastName = <<"d">>,
                              !.Email = <<"a", "_">>,
                              !.IsActive = TRUE]

BodyNoName == [EmployeeZero EXCEPT !.PrefixName = <<"M">>, !.LastName = <<"d">>]

\* request bodies: ok is false when the JSON does not decode
Bodies == {[ok |-> TRUE, e |-> BodyAb], [ok |-> TRUE, e |-> BodyC],
           [ok |-> TRUE, e |-> BodyNoName], [ok |-> FALSE, e |-> EmployeeZero]}

\* if employee.PrefixName == "" || employee.FirstName == "" || ...
MissingRequired(e) ==
    e.PrefixName = << >> \/ e.FirstName = << >> \/ e.LastName = << >>

\* the arguments CreateEmployee binds to its INSERT
CreateArgs(e) ==
    <<<< >>, e.PrefixName, e.FirstName, e.LastName, << >>, << >>, << >>, 0,
      NullTime, NullTime, << >>, << >>, 0>>

\* var birthDate interface{}; if employee.BirthDate != "" { birthDate = ... }
DateArg(s) == IF s = << >> THEN NullTime ELSE Val(s[1] * 2)

\* the arguments UpdateEmployee binds to its UPDATE, before the id
UpdateArgs(e) ==
    <<e.EmployeeCode, e.PrefixName, e.FirstName, e.LastName, e.Nickname,
      e.Email, e.PhoneNumber, e.Gender, DateArg(e.BirthDate),
      DateArg(e.HireDate), e.Department, e.Position, e.EmploymentType,
      e.IsActive>>

\* path ids: 0 stands for a text that is not a UUID, which the store rejects
PathIds == 0..MaxEmployees

\* "/api/employee", and the prefix "/api/employee/" the handlers cut off
PathBase == <<"/", "a", "p", "i", "/", "e", "m", "p", "l", "o", "y", "e", "e">>
PathPrefix == PathBase \o <<"/">>

\* the path that asks for an id: the numeral k is the text of the UUID of the
\* k-th row the store issued, x a text that is no UUID
PathFor(id) == PathPrefix \o (IF id = 0 THEN <<"x">> ELSE DigitsOf(id))

\* employeeID := path[len("/api/employee/"):], which panics on a shorter path
SliceInBounds(path) == Len(path) >= Len(PathPrefix)
EmployeeIDText(path) == SubSeq(path, Len(PathPrefix) + 1, Len(path))

\* the UUID a text stands for
Uuid(text) ==
    IF text # << >> /\ (\A i \in 1..Len(text) : IsDigit(text[i]))
    THEN Atoi(text).n ELSE 0

\* the id a handler works with
PathId(path) == IF SliceInBounds(path) THEN Uuid(EmployeeIDText(path)) ELSE 0

\* the status of a request whose handler panicked: no response was written
NoStatus == 0

\* the variables no write handler touches
listVars == <<req, pc, loc, issued, fault, resp>>

\* a body that is not JSON; also what stands for a body the handler never read
BodyUnread == [ok |-> FALSE, e |-> EmployeeZero]

\* one call of a single-record handler: its inputs (method, path and the id in it,
\* decoded body, whether the store answers) and the response it wrote
Call(op, in, status, e) ==
    [op |-> op, method |-> in.method, path |-> in.path, id |-> PathId(in.path),
     body |-> in.body, storeOk |-> in.storeOk, status |-> status, e |-> e]

NoCall ==
    Call("none", [method |-> "", path |-> PathFor(0), body |-> BodyUnread,
                  storeOk |-> TRUE],
         0, EmployeeZero)

\* a write handler answers without having changed the store
Rejected(call) ==
    /\ wresp' = call
    /\ UNCHANGED <<table, nextId, now, dirty, listVars, readVars>>

ValidBodies == {b \in Bodies : b.ok /\ ~MissingRequired(b.e)}

\* the store cannot read the id argument as a UUID
IdRejected(employeeID) == employeeID = 0

\* http.StatusNotFound
StatusNotFound == 404

\* the requests a handler is called with. Of the requests that differ only in
\* an input the handler returns before reading, one is kept: a request with
\* the wrong method has no id and no body, the store is up when it is not
\* reached, and a handler that reads no body gets none.
InputsOver(method, ids, bodies, readsBody) ==
    {in \in [method : {method, IF method = "GET" THEN "POST" ELSE "GET"},
             path : {PathFor(i) : i \in ids},
             body : bodies,
             storeOk : BOOLEAN] :
        /\ in.method # method =>
              (in.path = PathFor(0) /\ in.body = BodyUnread /\ in.storeOk)
        /\ (readsBody /\ (~in.body.ok \/ MissingRequired(in.body.e))) => in.storeOk}

Inputs(method, readsId, readsBody) ==
    InputsOver(method, IF readsId THEN PathIds ELSE {0},
               IF readsBody THEN Bodies ELSE {BodyUnread}, readsBody)

CreateInputs == Inputs("POST", FALSE, TRUE)
GetInputs == Inputs("GET", TRUE, FALSE)
UpdateInputs == Inputs("PUT", TRUE, TRUE)
DeleteInputs == Inputs("DELETE", TRUE, FALSE)

\* the requests that can commit a write: right method, an id the store can
\* read, a body that passes validation, the store up
Committing(ins) ==
    {in \in ins : /\ in.method \notin {"GET"}
                  /\ in.storeOk
                  /\ (in.body = BodyUnread \/ in.body \in ValidBodies)}

CreateEmployee(ins, cap) ==
    /\ pc # "done"
    /\ \E in \in ins :
        IF in.method # "POST"
        THEN Rejected(Call("create", in, 405, EmployeeZero))
        ELSE IF ~in.body.ok \/ MissingRequired(in.body.e)
        THEN Rejected(Call("create", in, 400, EmployeeZero))
        ELSE IF ~in.storeOk
        THEN Rejected(Call("create", in, 500, EmployeeZero))
        ELSE /\ nextId <= cap
             /\ table' = table \cup {InsertRow(nextId, CreateArgs(in.body.e), now)}
             /\ nextId' = nextId + 1
             /\ dirty' = (pc = "counted")
             /\ wresp' = Call("create", in, 201, [in.body.e EXCEPT !.ID = nextId])
             /\ gresp' = NoCall
             /\ UNCHANGED <<now, listVars, ltable, lresp>>

UpdateEmployee(ins) ==
    /\ pc # "done"
    /\ \E in \in ins :
        IF in.method # "PUT"
        THEN Rejected(Call("update", in, 405, EmployeeZero))
        ELSE IF ~SliceInBounds(in.path)
        THEN Rejected(Call("update", in, NoStatus, EmployeeZero))
        ELSE IF EmployeeIDText(in.path) = << >>
        THEN Rejected(Call("update", in, 400, EmployeeZero))
        ELSE IF ~in.body.ok \/ MissingRequired(in.body.e)
        THEN Rejected(Call("update", in, 400, EmployeeZero))
        ELSE IF ~in.storeOk \/ IdRejected(PathId(in.path))
        THEN Rejected(Call("update", in, 500, EmployeeZero))
        ELSE IF ~\E r \in table : r.id = PathId(in.path)
        THEN Rejected(Call("update", in, StatusNotFound, EmployeeZero))
        ELSE LET old == CHOOSE r \in table : r.id = PathId(in.path)
                 new == UpdateRow(old, UpdateArgs(in.body.e), now)
             IN  /\ table' = (table \ {old}) \cup {new}
                 /\ dirty' = (pc = "counted")
                 /\ wresp' = Call("update", in, 200, ScanUpdatedEmployee(new))
                 /\ gresp' = NoCall
                 /\ UNCHANGED <<nextId, now, listVars, ltable, lresp>>

\* the check of the affected rows left out
NoRowAffected_Never(tbl, employeeID) == FALSE

\* rowsAffected, err := result.RowsAffected(); if rowsAffected == 0
NoRowAffected(tbl, employeeID) == ~\E r \in tbl : r.id = employeeID

\* the statement removing nothing
DeleteRow_Keep(tbl, employeeID) == tbl

\* DELETE FROM m_employee WHERE id = $1
DeleteRow(tbl, employeeID) == {r \in tbl : r.id # employeeID}

DeleteEmployee(ins) ==
    /\ pc # "done"
    /\ \E in \in ins :
        IF in.method # "DELETE"
        THEN Rejected(Call("delete", in, 405, EmployeeZero))
        ELSE IF ~SliceInBounds(in.path)
        THEN Rejected(Call("delete", in, NoStatus, EmployeeZero))
        ELSE IF EmployeeIDText(in.path) = << >>
        THEN Rejected(Call("delete", in, 400, EmployeeZero))
        ELSE IF ~in.storeOk \/ IdRejected(PathId(in.path))
        THEN Rejected(Call("delete", in, 500, EmployeeZero))
        ELSE IF NoRowAffected(table, PathId(in.path))
        THEN Rejected(Call("delete", in, StatusNotFound, EmployeeZero))
        ELSE /\ table' = DeleteRow(table, PathId(in.path))
             /\ dirty' = (pc = "counted")
             /\ wresp' = Call("delete", in, 200, EmployeeZero)
             /\ gresp' = NoCall
             /\ UNCHANGED <<nextId, now, listVars, ltable, lresp>>

\* ------------------------------------------------------------------------
\* GetEmployeeByID
\* ------------------------------------------------------------------------
GetEmployeeByID(ins) ==
    /\ \E in \in ins :
        gresp' =
            IF in.method # "GET"
            THEN Call("get", in, 405, EmployeeZero)
            ELSE IF ~SliceInBounds(in.path)
            THEN Call("get", in, NoStatus, EmployeeZero)
            ELSE IF EmployeeIDText(in.path) = << >>
            THEN Call("get", in, 400, EmployeeZero)
            ELSE IF ~in.storeOk \/ IdRejected(PathId(in.path))
            THEN Call("get", in, 500, EmployeeZero)
            ELSE IF ~\E r \in table : r.id = PathId(in.path)
            THEN Call("get", in, StatusNotFound, EmployeeZero)
            ELSE Call("get", in, 200,
                      ScanEmployeeByID(CHOOSE r \in table : r.id = PathId(in.path)))
    /\ UNCHANGED <<table, nextId, now, dirty, wresp, listVars, ltable, lresp>>

\* time passes at the store
Tick ==
    /\ pc # "done"
    /\ now < MaxClock
    /\ now' = now + 1
    /\ UNCHANGED <<table, nextId, dirty, wresp, listVars, readVars>>

\* ------------------------------------------------------------------------
\* The lookup listing handlers
\* ------------------------------------------------------------------------
LookupHandlers ==
    {"GetDepartments", "GetPositions", "GetGeographies", "GetProvinces",
     "GetDistricts", "GetSubDistricts"}

\* the handlers that take a parent id as a query parameter
HasParentFilter(h) ==
    h \in {"GetPositions", "GetProvinces", "GetDistricts", "GetSubDistricts"}

\* the tables with a deleted_at column, read WHERE deleted_at IS NULL
HasDeletedAt(h) == h \in {"GetProvinces", "GetDistricts", "GetSubDistricts"}

\* ORDER BY department_id / geography_id, and by a name column elsewhere
OrderedById(h) == h \in {"GetDepartments", "GetGeographies"}

\* the handlers that select the created and updated columns
HasDates(h) == h # "GetGeographies"

\* the lookup tables hold at most this many rows
MaxLookupRows == 3

\* row i of a lookup table: key, parent key, name and the three timestamps
LookupRow(i) ==
    CASE i = 1 -> [id |-> 1, parent |-> 1, name |-> <<"b">>,
                   created |-> Val(0), updated |-> Val(1), deleted |-> NullTime]
      [] i = 2 -> [id |-> 2, parent |-> 2, name |-> <<"a">>,
                   created |-> NullTime, updated |-> NullTime, deleted |-> NullTime]
      [] i = 3 -> [id |-> 3, parent |-> 1, name |-> <<"b">>,
                   created |-> Val(1), updated |-> Val(1), deleted |-> Val(1)]
      [] OTHER -> [id |-> i, parent |-> 2, name |-> <<"c">>,
                   created |-> Val(0), updated |-> NullTime, deleted |-> NullTime]

LookupTables == SUBSET {LookupRow(i) : i \in 1..MaxLookupRows}

\* the raw parent id texts: absent, two keys, not a number, beyond int
LookupParams == {<< >>, <<"1">>, <<"2">>, <<"x">>, DigitsOf(MaxInt + 1)}

\* the liveness predicate left out: deleted rows are selected too
LookupSelect_All(h, filtered, parentID, tbl) ==
    {r \in tbl : filtered => r.parent = parentID}

\* the rows the statement of handler h selects: WHERE parent = $1 when the
\* parameter is given, AND deleted_at IS NULL where the table has the column
LookupSelect(h, filtered, parentID, tbl) ==
    {r \in tbl : /\ (filtered => r.parent = parentID)
                 /\ (HasDeletedAt(h) => ~r.deleted.Valid)}

\* every sequence the store may return for the ORDER BY of handler h
LookupQuery(h, filtered, parentID, tbl) ==
    LET sel == LookupSelect(h, filtered, parentID, tbl)
        n   == Cardinality(sel)
        Before(a, b) == IF OrderedById(h) THEN a.id < b.id
                        ELSE StrLess(a.name, b.name)
    IN  IF n = 0 THEN {<< >>} ELSE
        {f \in [1..n -> sel] :
            /\ \A i, j \in 1..n : i # j => f[i] # f[j]
            /\ \A i, j \in 1..n : i < j => ~Before(f[j], f[i])}

\* a timestamp converted to text by rows.Scan: the whole instant
TimeText(t) == <<t \div 2, "T", t % 2>>

\* rows.Scan into a plain string fails on NULL; into sql.NullString it does not
ScanLookupFails(h, row) ==
    h = "GetDepartments" /\ (~row.created.Valid \/ ~row.updated.Valid)

\* the record a handler builds from a row it scanned
ScanLookup(h, row) ==
    [id      |-> row.id,
     parent  |-> IF HasParentFilter(h) THEN row.parent ELSE 0,
     name    |-> row.name,
     created |-> IF HasDates(h) /\ row.created.Valid
                 THEN TimeText(row.created.V) ELSE << >>,
     updated |-> IF HasDates(h) /\ row.updated.Valid
                 THEN TimeText(row.updated.V) ELSE << >>,
     deleted |-> IF HasDeletedAt(h) /\ row.deleted.Valid
                 THEN TimeText(row.deleted.V) ELSE << >>]

\* for rows.Next() { if err := rows.Scan(...); err != nil { 500 }; append }
\* over the rows the cursor delivers; only a decoding error ends it early
RECURSIVE LookupLoop(_, _, _, _, _)
LookupLoop(h, rows, outcome, i, acc) ==
    IF i > Len(rows) \/ (outcome.kind = "iter" /\ i > outcome.at)
    THEN [err |-> FALSE, items |-> acc]
    ELSE IF (outcome.kind = "scan" /\ i = outcome.at) \/ ScanLookupFails(h, rows[i])
    THEN [err |-> TRUE, items |-> acc]
    ELSE LookupLoop(h, rows, outcome, i + 1, AppendSlice(acc, ScanLookup(h, rows[i])))

\* the nil check left out
NonNil_Keep(sl) == sl

\* if departments == nil { departments = []Department{} }
NonNil(sl) == IF sl.isNil THEN [isNil |-> FALSE, elems |-> << >>] ELSE sl

\* one call of a lookup handler: what it read and what it answered
LookupCall(h, method, param, failure, status, body) ==
    [handler |-> h, method |-> method, param |-> param, fault |-> failure,
     status |-> status, body |-> body]

NoLookupCall == LookupCall("", "", << >>, "none", 0, EncodeSlice(NilSlice))

\* the body of the six handlers; those without a parent filter never read the
\* query string
LookupList(h) ==
    /\ \E method \in Methods, raw \in LookupParams, storeOk \in BOOLEAN :
        LET param    == IF HasParentFilter(h) THEN raw ELSE << >>
            filtered == param # << >>
            parsed   == Atoi(param)
            NoRows   == EncodeSlice(NilSlice)
        IN  IF method # "GET"
            THEN lresp' = LookupCall(h, method, << >>, "none", 405, NoRows)
            ELSE IF filtered /\ parsed.err # "nil"
            THEN lresp' = LookupCall(h, method, param, "none", 400, NoRows)
            ELSE IF ~storeOk
            THEN lresp' = LookupCall(h, method, param, "query", 500, NoRows)
            ELSE \E rows \in LookupQuery(h, filtered, parsed.n, ltable) :
                 \E outcome \in RowOutcomes(rows) :
                 LET read == LookupLoop(h, rows, outcome, 1, NilSlice)
                 IN  lresp' =
                        IF read.err
                        THEN LookupCall(h, method, param, outcome.kind, 500, NoRows)
                        ELSE LookupCall(h, method, param, outcome.kind, 200,
                                        EncodeSlice(NonNil(read.items)))
    /\ UNCHANGED <<table, nextId, now, dirty, wresp, gresp, listVars, ltable>>

GetDepartments == LookupList("GetDepartments")
GetPositions == LookupList("GetPositions")
GetGeographies == LookupList("GetGeographies")
GetProvinces == LookupList("GetProvinces")
GetDistricts == LookupList("GetDistricts")
GetSubDistricts == LookupList("GetSubDistricts")

\* ------------------------------------------------------------------------
\* Requests
\* ------------------------------------------------------------------------
MkQuery(p, s, b, o, e) ==
    [page |-> p, page_size |-> s, sort_by |-> b, sort_order |-> o, search |-> e]

\* the same URL without the search parameter
WithoutSearch(q) == [k \in DOMAIN q \ {"search"} |-> q[k]]

\* raw page and page_size texts: empty, not a number, signed, zero, small,
\* around 100, the largest int and the first text beyond it
RawInts ==
    {<< >>, <<"x">>, <<"-", "1">>, <<"+", "2">>, <<"0">>, <<"1">>, <<"2">>,
     <<"1", "0", "0">>, <<"1", "0", "1">>, DigitsOf(MaxInt), DigitsOf(MaxInt + 1)}

RawSortBys == validSortFields \cup {"", "salary", "id; DROP TABLE m_employee"}

RawSortOrders == {"", "asc", "desc", "ASC", "DESC", "Desc"}

RawSearches == {<< >>, <<"a">>, <<"_">>, <<"%">>, <<"B">>}

\* the requests of the parameter study: every pair of raw numbers with a few
\* sort and search values, and every sort and search value with a few numbers
ParamQueries ==
    LET numeric == {MkQuery(p, s, b, o, e) :
                       p \in RawInts, s \in RawInts,
                       b \in {"", "first_name", "salary"},
                       o \in {"", "desc"}, e \in {<< >>, <<"a">>}}
        textual == {MkQuery(p, s, b, o, e) :
                       p \in {<< >>, <<"2">>}, s \in {<< >>, <<"1">>},
                       b \in RawSortBys, o \in RawSortOrders,
                       e \in RawSearches}
        full    == numeric \cup textual
    IN  full \cup {WithoutSearch(q) : q \in {x \in full : x.search = << >>}}

\* the requests that run against concurrent writes that commit, on a store
\* that does not fail
Queries ==
    {MkQuery(<< >>, << >>, "", "", << >>),
     MkQuery(<<"2">>, <<"1">>, "first_name", "desc", << >>),
     MkQuery(<< >>, <<"1">>, "id", "asc", <<"a">>),
     MkQuery(<< >>, << >>, "salary", "", << >>)}

Init ==
    /\ table = {}
    /\ nextId = 1
    /\ now = 0
    /\ req = NoRequest
    /\ pc = "idle"
    /\ loc = NoLocals
    /\ issued = << >>
    /\ fault = "none"
    /\ dirty = FALSE
    /\ resp = NoResponse
    /\ wresp = NoCall
    /\ gresp = NoCall
    /\ ltable = {}
    /\ lresp = NoLookupCall

Next ==
    \/ GetEmployeeListCount(Queries, StoreUp)
    \/ GetEmployeeListPage(StoreUp, CursorSound)
    \/ GetEmployeeListReturn
    \/ CreateEmployee(Committing(CreateInputs), MaxEmployees)
    \/ UpdateEmployee(Committing(UpdateInputs))
    \/ DeleteEmployee(Committing(DeleteInputs))

\* the list request against writes that commit within one tick of the clock
Spec == Init /\ [][Next]_vars

\* ---- the single-record handlers on their own -----------------------------
NextCrud ==
    \/ CreateEmployee(CreateInputs, MaxCrudEmployees)
    \/ GetEmployeeByID(GetInputs)
    \/ UpdateEmployee(UpdateInputs)
    \/ DeleteEmployee(DeleteInputs)
    \/ Tick

SpecCrud == Init /\ [][NextCrud]_vars

\* ---- the lookup listings: tables that no handler writes ------------------
InitLookup ==
    /\ table = {}
    /\ nextId = 1
    /\ now = 0
    /\ req = NoRequest
    /\ pc = "idle"
    /\ loc = NoLocals
    /\ issued = << >>
    /\ fault = "none"
    /\ dirty = FALSE
    /\ resp = NoResponse
    /\ wresp = NoCall
    /\ gresp = NoCall
    /\ ltable \in LookupTables
    /\ lresp = NoLookupCall

NextLookup ==
    \/ GetDepartments
    \/ GetPositions
    \/ GetGeographies
    \/ GetProvinces
    \/ GetDistricts
    \/ GetSubDistricts

SpecLookup == InitLookup /\ [][NextLookup]_vars

\* ---- the parameter study: a table that does not change ------------------
SeedRow(i) ==
    CASE i = 1 -> InsertRow(1, CreateArgs(BodyAb), 0)
      [] i = 2 -> UpdateRow(InsertRow(2, CreateArgs(BodyC), 0), UpdateArgs(BodyC), 1)
      [] i = 3 -> InsertRow(3, CreateArgs(BodyC), 1)
      [] OTHER -> InsertRow(i, CreateArgs(BodyAb), 1)

SeedTable(n) == {SeedRow(i) : i \in 1..n}

InitParams ==
    /\ \E n \in 0..MaxSeedRows : table = SeedTable(n) /\ nextId = n + 1
    /\ now = 1
    /\ req = NoRequest
    /\ pc = "idle"
    /\ loc = NoLocals
    /\ issued = << >>
    /\ fault = "none"
    /\ dirty = FALSE
    /\ resp = NoResponse
    /\ wresp = NoCall
    /\ gresp = NoCall
    /\ ltable = {}
    /\ lresp = NoLookupCall

NextParams ==
    \/ GetEmployeeListCount(ParamQueries, StoreMayFail)
    \/ GetEmployeeListPage(StoreMayFail, CursorMayFail)
    \/ GetEmployeeListReturn

SpecParams == InitParams /\ [][NextParams]_vars


\* ------------------------------------------------------------------------
\* Vocabulary of the properties
\* ------------------------------------------------------------------------
\* the raw parameters of the request being served
RawPage == QueryGet(req.query, "page")
RawPageSize == QueryGet(req.query, "page_size")
RawSortBy == QueryGet(req.query, "sort_by")
RawSortOrder == QueryGet(req.query, "sort_order")
RawSearch == QueryGet(req.query, "search")

\* a GetEmployeeList request got past the method check
Serving == pc # "idle" /\ req.method = "GET"

\* the count statement and the page statement of the request, once issued
CountIssued == Len(issued) >= 1
PageIssued == Len(issued) = 2
CountStmt == issued[1]
PageStmt == issued[2]

\* a decimal numeral: an optional sign and at least one digit
IsNumeral(s) ==
    LET body == IF s # << >> /\ Head(s) \in {"+", "-"} THEN Tail(s) ELSE s
    IN  body # << >> /\ \A i \in 1..Len(body) : IsDigit(body[i])

\* the number a decimal numeral denotes, by place value
RECURSIVE PlaceValue(_)
PlaceValue(ds) ==
    IF ds = << >> THEN 0
    ELSE 10 * PlaceValue(SubSeq(ds, 1, Len(ds) - 1)) + DigitVal(ds[Len(ds)])

NumeralValue(s) ==
    IF Head(s) = "-" THEN -PlaceValue(Tail(s))
    ELSE IF Head(s) = "+" THEN PlaceValue(Tail(s))
    ELSE PlaceValue(s)

\* the WHERE predicate of a statement and the patterns bound to it
WherePart(stmt) ==
    LET w == IndexOf(stmt.text, WhereFirstName)
    IN  IF w = 0 THEN << >> ELSE SubSeq(stmt.text, w, w + 6)

WherePatterns(stmt) ==
    LET w == IndexOf(stmt.text, WhereFirstName)
    IN  IF w = 0 THEN << >>
        ELSE <<Placeholder(stmt, w + 1), Placeholder(stmt, w + 3),
               Placeholder(stmt, w + 5)>>

\* term occurs in s as a literal substring, letter case ignored
ContainsFold(s, term) ==
    \E i \in 1..(Len(s) - Len(term) + 1) :
        SubSeq(LowerStr(s), i, i + Len(term) - 1) = LowerStr(term)

\* the least k with k * size >= total
CeilDiv(total, size) ==
    CHOOSE k \in 0..total : k * size >= total /\ (k = 0 \/ (k - 1) * size < total)

Min(a, b) == IF a < b THEN a ELSE b
Max(a, b) == IF a > b THEN a ELSE b

\* ------------------------------------------------------------------------
\* Properties
\* ------------------------------------------------------------------------

\* C1: whatever sort_by and sort_order are, the ORDER BY clause of every page
\* statement sent to the store is a column of the allow-list followed by ASC
\* or DESC, and a sort_by outside the allow-list occurs in no SQL text issued.
C1_OrderByFromAllowList ==
    /\ \A i \in 1..Len(issued) :
          LET t == issued[i].text
              o == IndexOf(t, OrderByKw)
          IN  o # 0 => /\ t[o + 1] \in validSortFields
                       /\ t[o + 2] = " "
                       /\ t[o + 3] \in {"ASC", "DESC"}
                       /\ t[o + 4] = LimitKw
    /\ PageIssued => IndexOf(PageStmt.text, OrderByKw) # 0
    /\ RawSortBy \notin validSortFields =>
          \A i \in 1..Len(issued) : IndexOf(issued[i].text, RawSortBy) = 0

C1_Witness ==
    /\ PageIssued
    /\ resp.status = 200
    /\ RawSortBy = "employee_code"
    /\ RawSortOrder = "Desc"
    /\ PageStmt.text[IndexOf(PageStmt.text, OrderByKw) + 1] = "employee_code"

\* C2: a non-empty sort_by outside the allow-list is answered 400 with no
\* statement sent to the store; an empty sort_by becomes created_at and is
\* not rejected.
C2_UnknownSortRejected ==
    /\ (Serving /\ RawSortBy # "" /\ RawSortBy \notin validSortFields) =>
          /\ pc = "done"
          /\ resp.status = 400
          /\ issued = << >>
    /\ (Serving /\ RawSortBy = "") =>
          /\ resp.status # 400
          /\ loc.sortBy = "created_at"
          /\ CountIssued

C2_Witness ==
    /\ Serving
    /\ RawSortBy = "salary"
    /\ resp.status = 400
    /\ issued = << >>

\* the page size the contract gives a raw page_size text
ExpectedPageSize(raw) ==
    IF IsNumeral(raw) /\ NumeralValue(raw) >= 1 /\ NumeralValue(raw) <= 100
    THEN NumeralValue(raw) ELSE 10

\* C3: the effective page size, bound to LIMIT and echoed in the response, is
\* the parsed page_size when it lies in 1..100 and 10 in every other case.
C3_EffectivePageSize ==
    /\ (Serving /\ CountIssued) => loc.pageSize = ExpectedPageSize(RawPageSize)
    /\ (Serving /\ PageIssued) =>
          Placeholder(PageStmt, IndexOf(PageStmt.text, LimitKw) + 1)
              = ExpectedPageSize(RawPageSize)
    /\ (Serving /\ resp.status = 200) =>
          resp.body.page_size = ExpectedPageSize(RawPageSize)

C3_Witness ==
    /\ Serving
    /\ resp.status = 200
    /\ RawPageSize = <<"1", "0", "0">>
    /\ resp.body.page_size = 100

\* the page the contract gives a raw page text
ExpectedPage(raw) ==
    IF IsNumeral(raw) /\ NumeralValue(raw) >= 1 /\ NumeralValue(raw) <= MaxInt
    THEN NumeralValue(raw) ELSE 1

\* C4: a page text that is not a number, does not fit the integer type or is
\* below 1 gives the effective page 1; any other gives the parsed value.
C4_EffectivePage ==
    (Serving /\ CountIssued) => loc.page = ExpectedPage(RawPage)

\* C5: in every 200 response total_pages is the ceiling of total / page_size,
\* and 0 when total is 0.
C5_TotalPagesIsCeiling ==
    (Serving /\ resp.status = 200) =>
        /\ resp.body.total >= 0
        /\ resp.body.page_size \in 1..100
        /\ resp.body.total_pages = CeilDiv(resp.body.total, resp.body.page_size)
        /\ (resp.body.total = 0 => resp.body.total_pages = 0)

C5_Witness ==
    /\ Serving
    /\ resp.status = 200
    /\ resp.body.total = 3
    /\ resp.body.page_size = 2
    /\ resp.body.total_pages = 2

\* C6: with a sort_by that is empty or in the allow-list and a store that
\* does not fail, no page, page_size or sort_order text leads to an error
\* status: the response is 200.
C6_NeverAnErrorStatus ==
    (/\ Serving
     /\ pc = "done"
     /\ RawSortBy \in validSortFields \cup {""}
     /\ fault = "none") => resp.status = 200

\* C7: the count statement and the page statement of one request carry the
\* same WHERE predicate and the same search patterns; the predicate is absent
\* from both exactly when search is empty, so that search="" and no search
\* parameter give the same count statement.
C7_SharedPredicate ==
    /\ PageIssued =>
          /\ WherePart(PageStmt) = WherePart(CountStmt)
          /\ WherePatterns(PageStmt) = WherePatterns(CountStmt)
    /\ \A i \in 1..Len(issued) :
          (WherePart(issued[i]) = << >>) <=> (RawSearch = << >>)
    /\ \A i \in 1..Len(issued) :
          RawSearch # << >> =>
              WherePatterns(issued[i]) = [k \in 1..3 |-> <<"%">> \o RawSearch \o <<"%">>]
    /\ (CountIssued /\ RawSearch = << >>) =>
          CountStmt = [text |-> <<SelectCount>>, args |-> << >>]

C7_Witness ==
    /\ PageIssued
    /\ resp.status = 200
    /\ RawSearch = <<"a">>
    /\ WherePart(PageStmt) # << >>
    /\ WherePart(PageStmt) = WherePart(CountStmt)

C7_WitnessNoSearch ==
    /\ PageIssued
    /\ "search" \notin DOMAIN req.query
    /\ WherePart(PageStmt) = << >>

\* a stored row contains the term in a searchable column
RowContains(row, term) ==
    \/ ContainsFold(row.first_name, term)
    \/ ContainsFold(row.last_name, term)
    \/ (row.email.Valid /\ ContainsFold(row.email.V, term))

\* a returned record contains the term in a searchable field
RecordContains(e, term) ==
    \/ ContainsFold(e.FirstName, term)
    \/ ContainsFold(e.LastName, term)
    \/ ContainsFold(e.Email, term)

\* C8: for a non-empty search term, on a table without concurrent writes,
\* total is the number of rows that contain the term as a literal substring
\* of first_name, last_name or email (case ignored), and every row of data
\* contains it.
C8_SearchIsLiteralSubstring ==
    (Serving /\ resp.status = 200 /\ RawSearch # << >> /\ ~dirty) =>
        /\ resp.body.total = Cardinality({r \in table : RowContains(r, RawSearch)})
        /\ \A i \in 1..Len(resp.body.data.items) :
              RecordContains(resp.body.data.items[i], RawSearch)

\* the request carries no parameter, or only empty ones
DefaultParameters ==
    /\ RawPage = << >>
    /\ RawPageSize = << >>
    /\ RawSortBy = ""
    /\ RawSortOrder = ""
    /\ RawSearch = << >>

\* C9: on an empty table, a request with default parameters returns data as
\* an empty array, not null, with total 0, page 1, page_size 10 and
\* total_pages 0.
C9_EmptyTableEnvelope ==
    (Serving /\ pc = "done" /\ DefaultParameters /\ table = {} /\ ~dirty
        /\ fault = "none") =>
        /\ resp.status = 200
        /\ resp.body = [data |-> [null |-> FALSE, items |-> << >>],
                        total |-> 0, page |-> 1, page_size |-> 10,
                        total_pages |-> 0]

\* C10: with N rows matching the predicate and no write between the two
\* statements, the response is 200 with total N and exactly
\* min(s, max(0, N - (p-1)*s)) rows, for the effective page p and size s.
C10_PageHoldsItsShare ==
    (/\ Serving
     /\ pc = "done"
     /\ RawSortBy \in validSortFields \cup {""}
     /\ fault = "none"
     /\ ~dirty) =>
        LET N == Cardinality({r \in table : RowMatches(r, CountStmt)})
            p == loc.page
            s == loc.pageSize
        IN  /\ resp.status = 200
            /\ resp.body.total = N
            /\ Len(resp.body.data.items) = Min(s, Max(0, N - (p - 1) * s))

\* C11: in every 200 response of GetEmployeeList, whatever inserts, updates
\* and deletes commit around its two statements, data holds at most page_size
\* rows, page_size being the value echoed in the response.
C11_RowsWithinPageSize ==
    (Serving /\ resp.status = 200) =>
        Len(resp.body.data.items) <= resp.body.page_size

C11_Witness ==
    /\ Serving
    /\ resp.status = 200
    /\ dirty
    /\ Len(resp.body.data.items) = resp.body.page_size
    /\ Cardinality({r \in table : RowMatches(r, CountStmt)}) > resp.body.page_size

\* the records of every result the store may give for a statement now
PagesOf(stmt) == {ScanRows(rows, NilSlice).elems : rows \in ExecPage(stmt, table)}

\* C12: the count statement and the page statement are two reads of the
\* store: total is what the count statement saw, data is a page of the table
\* as it is when the page statement runs, and a write that commits between the
\* two leaves the response a 200 even when the two disagree.
C12_TotalAndRowsFromTwoReads ==
    (Serving /\ PageIssued /\ pc = "done" /\ fault = "none") =>
        /\ resp.status = 200
        /\ resp.body.total = loc.totalRecords
        /\ resp.body.data.items \in PagesOf(PageStmt)
        /\ ~dirty => resp.body.total = ExecCount(CountStmt, table)

C12_Witness ==
    /\ Serving
    /\ resp.status = 200
    /\ dirty
    /\ resp.body.total = 0
    /\ Len(resp.body.data.items) > 0

\* C13: the count statement is the first statement of a request and the page
\* statement the second; when the count statement fails the response is 500
\* and no page statement is issued.
C13_CountFirstFailFast ==
    /\ Len(issued) <= 2
    /\ CountIssued => CountStmt.text[1] = SelectCount
    /\ PageIssued => PageStmt.text[1] = SelectColumns
    /\ fault = "count" =>
          /\ pc = "done"
          /\ resp.status = 500
          /\ Len(issued) = 1
    /\ pc = "counted" => (fault = "none" /\ Len(issued) = 1)

C13_Witness ==
    /\ Serving
    /\ fault = "count"
    /\ resp.status = 500
    /\ Len(issued) = 1
    /\ table # {}

\* C14: a failure of the page statement, of the decoding of a row or of the
\* iteration gives a 500 response without any of the rows read so far; a 200
\* response is sent only when every row of the page was decoded and the
\* iteration ended without error.
C14_NoPartialResults ==
    /\ (Serving /\ fault \in {"query", "scan", "iter"}) =>
          /\ resp.status = 500
          /\ resp.body = NoBody
    /\ (Serving /\ resp.status = 200) =>
          /\ fault = "none"
          /\ Len(loc.employees.elems) = Len(loc.rows)
          /\ resp.body.data.items = loc.employees.elems

C14_Witness ==
    /\ Serving
    /\ fault = "iter"
    /\ Len(loc.employees.elems) >= 1
    /\ Len(loc.employees.elems) < Len(loc.rows)
    /\ resp.status = 500
    /\ resp.body.data.items = << >>

\* C15: a lookup listing handler answers 500 whenever the store fails during
\* the fetch, also when the failure ends the iteration over the rows early.
C15_LookupFailureIs500 ==
    lresp.fault # "none" => lresp.status = 500

\* the direction in the ORDER BY clause of the page statement
PageDirection == PageStmt.text[IndexOf(PageStmt.text, OrderByKw) + 3]

\* C16: the direction of the page statement is DESC exactly when sort_order
\* is the text "desc", and ASC for every other text.
C16_DescOnlyForLowerCaseDesc ==
    PageIssued => PageDirection = IF RawSortOrder = "desc" THEN "DESC" ELSE "ASC"

C16_Witness ==
    /\ PageIssued
    /\ resp.status = 200
    /\ RawSortOrder = "DESC"
    /\ PageDirection = "ASC"

\* the fields of a submitted employee that are not assigned by the server
SubmittedFields ==
    {"EmployeeCode", "PrefixName", "FirstName", "LastName", "Nickname", "Email",
     "PhoneNumber", "Gender", "BirthDate", "HireDate", "Department", "Position",
     "EmploymentType"}

\* C17: after a CreateEmployee answered 201, a GetEmployeeByID of the returned
\* id with no write in between returns every submitted field unchanged.
C17_CreateThenGetRoundTrip ==
    (/\ wresp.op = "create"
     /\ wresp.status = 201
     /\ gresp.status = 200
     /\ gresp.id = wresp.e.ID) =>
        \A f \in SubmittedFields : gresp.e[f] = wresp.body.e[f]

\* a call that reaches the store with an id it can read: the handler's own
\* method, a body that passes validation, the store up
ReachesStore(c, method) ==
    /\ c.method = method
    /\ c.id \in PathIds
    /\ ~IdRejected(c.id)
    /\ c.storeOk
    /\ (c.op = "update" => c.body \in ValidBodies)

\* C18: GetEmployeeByID, UpdateEmployee and DeleteEmployee, called with a
\* well-formed id that matches no row, answer 404 and leave the table as it
\* is; and no handler that answers 404 has changed the table.
C18_UnknownIdIs404 ==
    [][/\ (/\ gresp' # gresp
           /\ ReachesStore(gresp', "GET")
           /\ ~\E r \in table : r.id = gresp'.id) =>
              (gresp'.status = 404 /\ table' = table)
       /\ (/\ wresp' # wresp
           /\ wresp'.op \in {"update", "delete"}
           /\ ReachesStore(wresp', IF wresp'.op = "update" THEN "PUT" ELSE "DELETE")
           /\ ~\E r \in table : r.id = wresp'.id) =>
              (wresp'.status = 404 /\ table' = table)
       /\ (wresp' # wresp /\ wresp'.status = 404) => table' = table]_vars

C18_Witness ==
    /\ table # {}
    /\ gresp.status = 404
    /\ wresp.op = "delete"
    /\ wresp.status = 404
    /\ ~\E r \in table : r.id = wresp.id

\* C19: GetEmployeeByID, UpdateEmployee and DeleteEmployee, called with an id
\* that is not a UUID, answer 400.
C19_UnparseableIdIs400 ==
    /\ (gresp.op = "get" /\ gresp.method = "GET" /\ gresp.storeOk
            /\ IdRejected(gresp.id)) => gresp.status = 400
    /\ (wresp.op = "update" /\ wresp.method = "PUT" /\ wresp.storeOk
            /\ wresp.body \in ValidBodies /\ IdRejected(wresp.id)) =>
          wresp.status = 400
    /\ (wresp.op = "delete" /\ wresp.method = "DELETE" /\ wresp.storeOk
            /\ IdRejected(wresp.id)) => wresp.status = 400

\* C20: the body of every 200 response of a lookup listing handler is an
\* array; a result without rows gives [] and not null, with a parent filter
\* and without one.
C20_LookupBodyIsArray ==
    lresp.status = 200 => ~lresp.body.null

C20_Witness ==
    /\ lresp.status = 200
    /\ lresp.fault = "none"
    /\ lresp.param # << >>
    /\ ltable # {}
    /\ lresp.body = [null |-> FALSE, items |-> << >>]

\* the handlers whose table has a deleted_at column
SoftDeleting == {"GetProvinces", "GetDistricts", "GetSubDistricts"}

\* C21: GetProvinces, GetDistricts and GetSubDistricts, filtered by a parent
\* id or not, return live rows only: no returned record is that of a row whose
\* deleted_at is set, and the deleted_at field of every record is empty.
C21_OnlyLiveRows ==
    (lresp.status = 200 /\ lresp.handler \in SoftDeleting) =>
        \A i \in 1..Len(lresp.body.items) :
            /\ lresp.body.items[i].deleted = << >>
            /\ \E r \in ltable : /\ r.id = lresp.body.items[i].id
                                  /\ ~r.deleted.Valid

C21_Witness ==
    /\ lresp.status = 200
    /\ lresp.handler = "GetProvinces"
    /\ lresp.param = <<"1">>
    /\ lresp.fault = "none"
    /\ \E r \in ltable : r.deleted.Valid /\ r.parent = 1
    /\ Len(lresp.body.items) = 1

\* C22: GetDepartments decodes a row whose created_date or updated_date is
\* NULL with the empty string in that field, and answers 200 with that row,
\* as GetPositions does.
C22_DepartmentNullDates ==
    (/\ lresp.handler \in {"GetDepartments", "GetPositions"}
     /\ lresp.method = "GET"
     /\ lresp.param = << >>
     /\ lresp.fault = "none") =>
        /\ lresp.status = 200
        /\ \A r \in ltable :
              \E i \in 1..Len(lresp.body.items) :
                  /\ lresp.body.items[i].id = r.id
                  /\ (~r.created.Valid => lresp.body.items[i].created = << >>)
                  /\ (~r.updated.Valid => lresp.body.items[i].updated = << >>)

\* the sort keys of the ORDER BY clause of a page statement: the fragments
\* between ORDER BY and LIMIT that are columns
OrderKeys(stmt) ==
    LET o == IndexOf(stmt.text, OrderByKw)
        l == IndexOf(stmt.text, LimitKw)
    IN  [i \in 1..Cardinality({k \in (o + 1)..(l - 1) : stmt.text[k] \in Columns}) |->
            stmt.text[CHOOSE k \in (o + 1)..(l - 1) :
                /\ stmt.text[k] \in Columns
                /\ Cardinality({j \in (o + 1)..k : stmt.text[j] \in Columns}) = i]]

\* C23: the page statement orders by sort_by and then by the primary key, so
\* that on an unchanged table the store has exactly one answer to it: the same
\* request always gets the same sequence of rows.
C23_DeterministicOrder ==
    (Serving /\ PageIssued /\ resp.status = 200) =>
        /\ OrderKeys(PageStmt) = <<loc.sortBy, "id">>
        /\ Cardinality(PagesOf(PageStmt)) = 1

\* the OFFSET argument of the page statement
OffsetArg == Placeholder(PageStmt, IndexOf(PageStmt.text, OffsetKw) + 1)

\* the LIMIT argument of the page statement
LimitArg == Placeholder(PageStmt, IndexOf(PageStmt.text, LimitKw) + 1)

\* C24: the OFFSET argument of the page statement is (page - 1) * page_size
\* of the effective page and page size, computed without wrap-around, and is
\* never negative, for every page and page_size text.
C24_OffsetWithoutWrap ==
    (Serving /\ PageIssued) =>
        /\ OffsetArg = (loc.page - 1) * loc.pageSize
        /\ OffsetArg >= 0

\* the fragments a statement of GetEmployeeList is made of, apart from the
\* placeholder numbers
FixedFragments ==
    {SelectCount, SelectColumns, WhereFirstName, OrLastName, OrEmail, ")",
     OrderByKw, " ", "ASC", "DESC", LimitKw, OffsetKw} \cup validSortFields

\* the positions of a statement text that hold a placeholder number: those
\* that follow a fragment ending in "$"
PlaceholderPositions(stmt) ==
    {i \in 2..Len(stmt.text) :
        stmt.text[i - 1] \in {WhereFirstName, OrLastName, OrEmail, LimitKw, OffsetKw}}

\* C25: every statement of GetEmployeeList consists of fixed text and the
\* placeholders $1..$k for its k arguments; the search text occurs in the
\* arguments only. The count statement has 0 or 3 arguments, the page
\* statement 2 or 5, the last two being page_size for LIMIT and the offset for
\* OFFSET.
C25_BoundArgumentsOnly ==
    /\ \A n \in 1..Len(issued) :
          LET stmt == issued[n]
              ph   == PlaceholderPositions(stmt)
          IN  /\ \A i \in (1..Len(stmt.text)) \ ph : stmt.text[i] \in FixedFragments
              /\ {stmt.text[i] : i \in ph} = {Itoa(k) : k \in 1..Len(stmt.args)}
              /\ Cardinality(ph) = Len(stmt.args)
    /\ CountIssued => Len(CountStmt.args) = IF RawSearch = << >> THEN 0 ELSE 3
    /\ (CountIssued /\ RawSearch # << >>) =>
          \A k \in 1..3 : CountStmt.args[k] = <<"%">> \o RawSearch \o <<"%">>
    /\ PageIssued =>
          /\ Len(PageStmt.args) = IF RawSearch = << >> THEN 2 ELSE 5
          /\ SubSeq(PageStmt.args, 1, Len(PageStmt.args) - 2) = CountStmt.args
          /\ PageStmt.text[IndexOf(PageStmt.text, LimitKw) + 1]
                = Itoa(Len(PageStmt.args) - 1)
          /\ PageStmt.text[IndexOf(PageStmt.text, OffsetKw) + 1]
                = Itoa(Len(PageStmt.args))
          /\ LimitArg = loc.pageSize
          /\ OffsetArg = Offset(loc.page, loc.pageSize)

C25_Witness ==
    /\ PageIssued
    /\ resp.status = 200
    /\ RawSearch = <<"%">>
    /\ RawPageSize = <<"1">>
    /\ Len(PageStmt.args) = 5
    /\ LimitArg = 1
    /\ OffsetArg = 1

\* the table tbl holds a row with this id
Stored(tbl, employeeID) == \E r \in tbl : r.id = employeeID

\* C26: of the DeleteEmployee requests on one id, in any order, the one that
\* finds the row answers 200 and removes it, and every later one answers 404:
\* an id once issued and no longer in the table never comes back, and a
\* GetEmployeeByID for it answers 404.
C26_DeleteOnce ==
    [][/\ (/\ wresp' # wresp
           /\ wresp'.op = "delete"
           /\ ReachesStore(wresp', "DELETE")) =>
              /\ wresp'.status = IF Stored(table, wresp'.id) THEN 200 ELSE 404
              /\ ~Stored(table', wresp'.id)
              /\ table' = {r \in table : r.id # wresp'.id}
       /\ \A employeeID \in 1..(nextId - 1) :
              ~Stored(table, employeeID) => ~Stored(table', employeeID)
       /\ nextId' >= nextId
       /\ \A r \in table' : r.id < nextId'
       /\ (/\ gresp' # gresp
           /\ ReachesStore(gresp', "GET")
           /\ ~Stored(table, gresp'.id)) => gresp'.status = 404]_vars

C26_Witness ==
    /\ wresp.op = "delete"
    /\ wresp.status = 404
    /\ ReachesStore(wresp, "DELETE")
    /\ wresp.id < nextId
    /\ gresp.op = "get"
    /\ gresp.status = 404
    /\ gresp.id = wresp.id
    /\ ReachesStore(gresp, "GET")

\* ------------------------------------------------------------------------
\* The three readers of one row: list, get and update over stored rows
\* ------------------------------------------------------------------------
MaxRecordRows == 2

\* a request body with every optional field filled in
BodyDated == [EmployeeZero EXCEPT !.EmployeeCode = <<"E">>,
                                  !.PrefixName = <<"M">>,
                                  !.FirstName = <<"c">>,
                                  !.LastName = <<"d">>,
                                  !.Nickname = <<"a">>,
                                  !.Email = <<"a", "_">>,
                                  !.PhoneNumber = <<"1">>,
                                  !.Gender = 1,
                                  !.BirthDate = <<1>>,
                                  !.HireDate = <<0>>,
                                  !.Department = <<"b">>,
                                  !.Position = <<"c">>,
                                  !.EmploymentType = 2,
                                  !.IsActive = TRUE]

\* a row holding NULL in every column of m_employee that admits it
BareRow(id) ==
    [id              |-> id,
     employee_code   |-> NullString,
     prefix_name     |-> <<"M">>,
     first_name      |-> <<"c">>,
     last_name       |-> <<"d">>,
     nickname        |-> NullString,
     email           |-> NullString,
     phone_number    |-> NullString,
     gender          |-> NullInt,
     birth_date      |-> NullTime,
     hire_date       |-> NullTime,
     department      |-> NullString,
     position        |-> NullString,
     employment_type |-> NullInt,
     is_active       |-> TRUE,
     created_at      |-> NullTime,
     updated_at      |-> NullTime]

\* stored rows: one with every column set, one with every nullable column
\* NULL, the others as CreateEmployee leaves them
RecordRow(i) ==
    CASE i = 1 -> UpdateRow(InsertRow(1, CreateArgs(BodyAb), 0), UpdateArgs(BodyDated), 0)
      [] i = 2 -> BareRow(2)
      [] OTHER -> InsertRow(i, CreateArgs(BodyC), 0)

RecordTable == {RecordRow(i) : i \in 1..MaxRecordRows}

\* path ids: 0 is no UUID, MaxRecordRows + 1 matches no row
RecordIds == 0..(MaxRecordRows + 1)

RecordBodies == {[ok |-> TRUE, e |-> BodyDated], [ok |-> TRUE, e |-> BodyAb],
                 [ok |-> TRUE, e |-> BodyNoName], BodyUnread}

RecordGetInputs ==
    {in \in InputsOver("GET", RecordIds, {BodyUnread}, FALSE) :
        in.method = "GET" /\ in.storeOk}

RecordUpdateInputs == InputsOver("PUT", RecordIds, RecordBodies, TRUE)

RecordQueries == {MkQuery(<< >>, << >>, "id", "", << >>)}

InitRecord ==
    /\ table = RecordTable
    /\ nextId = MaxRecordRows + 1
    /\ now = MaxClock
    /\ req = NoRequest
    /\ pc = "idle"
    /\ loc = NoLocals
    /\ issued = << >>
    /\ fault = "none"
    /\ dirty = FALSE
    /\ resp = NoResponse
    /\ wresp = NoCall
    /\ gresp = NoCall
    /\ ltable = {}
    /\ lresp = NoLookupCall

NextRecord ==
    \/ GetEmployeeListCount(RecordQueries, StoreUp)
    \/ GetEmployeeListPage(StoreUp, CursorSound)
    \/ GetEmployeeListReturn
    \/ GetEmployeeByID(RecordGetInputs)
    \/ UpdateEmployee(RecordUpdateInputs)

SpecRecord == InitRecord /\ [][NextRecord]_vars

\* the column values a request body asks for, column by column
BodyInRow(e, r) ==
    /\ r.employee_code = Val(e.EmployeeCode)
    /\ r.prefix_name = e.PrefixName
    /\ r.first_name = e.FirstName
    /\ r.last_name = e.LastName
    /\ r.nickname = Val(e.Nickname)
    /\ r.email = Val(e.Email)
    /\ r.phone_number = Val(e.PhoneNumber)
    /\ r.gender = Val(e.Gender)
    /\ r.birth_date.Valid = (e.BirthDate # << >>)
    /\ r.birth_date.Valid => FormatDate(r.birth_date.V) = e.BirthDate
    /\ r.hire_date.Valid = (e.HireDate # << >>)
    /\ r.hire_date.Valid => FormatDate(r.hire_date.V) = e.HireDate
    /\ r.department = Val(e.Department)
    /\ r.position = Val(e.Position)
    /\ r.employment_type = Val(e.EmploymentType)
    /\ r.is_active = e.IsActive

\* C27: an UpdateEmployee that answers 200 for id X changes the row X and no
\* other: id and created_at of row X stay, every other column takes the value
\* of the request body and updated_at the time of the statement. An
\* UpdateEmployee that answers anything else, 400 and 404 among them, leaves
\* every row as it is; and the table changes in no other way.
C27_UpdateChangesOneRow ==
    [][/\ (wresp' # wresp /\ wresp'.op = "update") =>
            IF wresp'.status = 200
            THEN \E old \in table : \E new \in table' :
                    /\ old.id = wresp'.id
                    /\ new.id = old.id
                    /\ table' \ {new} = table \ {old}
                    /\ new.created_at = old.created_at
                    /\ new.updated_at = Val(now)
                    /\ BodyInRow(wresp'.body.e, new)
            ELSE table' = table
       /\ table' # table =>
            (wresp' # wresp /\ wresp'.op = "update" /\ wresp'.status = 200)]_vars

C27_Witness ==
    /\ wresp.op = "update"
    /\ wresp.status = 200
    /\ wresp.body.e = BodyDated
    /\ Cardinality(table) >= 2
    /\ \E r \in table : /\ r.id = wresp.id
                         /\ r.created_at = Val(0)
                         /\ r.updated_at = Val(MaxClock)
    /\ \E r \in table : r.id # wresp.id /\ r \in RecordTable

\* the record the handlers are to build for a stored row: "" for an absent
\* string or time, 0 for an absent number, the date-only form of birth_date
\* and hire_date, the full form of created_at and updated_at
AgreesWithRow(e, r) ==
    /\ e.ID = r.id
    /\ \A f \in {<<"EmployeeCode", "employee_code">>, <<"Nickname", "nickname">>,
                  <<"Email", "email">>, <<"PhoneNumber", "phone_number">>,
                  <<"Department", "department">>, <<"Position", "position">>} :
           e[f[1]] = IF r[f[2]].Valid THEN r[f[2]].V ELSE << >>
    /\ \A f \in {<<"Gender", "gender">>, <<"EmploymentType", "employment_type">>} :
           e[f[1]] = IF r[f[2]].Valid THEN r[f[2]].V ELSE 0
    /\ \A f \in {<<"BirthDate", "birth_date">>, <<"HireDate", "hire_date">>} :
           IF r[f[2]].Valid THEN Len(e[f[1]]) = 1 ELSE e[f[1]] = << >>
    /\ \A f \in {<<"CreatedAt", "created_at">>, <<"UpdatedAt", "updated_at">>} :
           IF r[f[2]].Valid THEN Len(e[f[1]]) = 2 ELSE e[f[1]] = << >>

\* the records the three operations hold for the rows as they are stored now
RecordsOf(employeeID) ==
    (IF gresp.op = "get" /\ gresp.status = 200 /\ gresp.id = employeeID
     THEN {gresp.e} ELSE {})
    \cup (IF wresp.op = "update" /\ wresp.status = 200 /\ wresp.id = employeeID
          THEN {wresp.e} ELSE {})
    \cup (IF pc = "done" /\ resp.status = 200
          THEN {resp.body.data.items[i] : i \in
                   {j \in 1..Len(resp.body.data.items) :
                       resp.body.data.items[j].ID = employeeID}}
          ELSE {})

\* C29: the records GetEmployeeByID, GetEmployeeList and UpdateEmployee give
\* for the same stored row are equal in every field, and each is the record
\* of the common mapping: absent string "", absent number 0, absent time "",
\* dates in the date-only form, timestamps in the full form.
C29_OneMapping ==
    \A r \in table :
        /\ Cardinality(RecordsOf(r.id)) <= 1
        /\ \A e \in RecordsOf(r.id) : AgreesWithRow(e, r)

C29_Witness ==
    \E r \in table :
        /\ r.birth_date.Valid
        /\ ~r.created_at.Valid
        /\ gresp.op = "get" /\ gresp.status = 200 /\ gresp.id = r.id
        /\ wresp.op = "update" /\ wresp.status = 200 /\ wresp.id = r.id
        /\ pc = "done" /\ resp.status = 200
        /\ \E j \in 1..Len(resp.body.data.items) :
               resp.body.data.items[j] = gresp.e
        /\ gresp.e.BirthDate = <<1>>
        /\ gresp.e.CreatedAt = << >>

\* ------------------------------------------------------------------------
\* The router of /api/employee and /api/employee/
\* ------------------------------------------------------------------------
\* the paths the mux hands to employeeHandler: "/api/employee" itself and
\* every path below "/api/employee/"
RouterPaths == {PathBase, PathPrefix} \cup {PathFor(i) : i \in PathIds}

RouterMethods == {"GET", "PUT", "DELETE", "POST"}

\* the requests that arrive at the router
RouterRequests ==
    [method : RouterMethods, path : RouterPaths,
     body : {[ok |-> TRUE, e |-> BodyAb], BodyUnread}, storeOk : {TRUE}]

\* if len(path) > len("/api/employee/") && path != "/api/employee"
HasIdInPath(path) == Len(path) > Len(PathPrefix) /\ path # PathBase

\* func employeeHandler(w, r): dispatch on the path and the method; the
\* default branches answer 405 themselves
employeeHandler(reqs) ==
    \E rq \in reqs :
        IF HasIdInPath(rq.path)
        THEN IF rq.method = "GET" THEN GetEmployeeByID({rq})
             ELSE IF rq.method = "PUT" THEN UpdateEmployee({rq})
             ELSE IF rq.method = "DELETE" THEN DeleteEmployee({rq})
             ELSE pc # "done" /\ Rejected(Call("employeeHandler", rq, 405, EmployeeZero))
        ELSE IF rq.method = "POST" THEN CreateEmployee({rq}, MaxCrudEmployees)
             ELSE pc # "done" /\ Rejected(Call("employeeHandler", rq, 405, EmployeeZero))

NextRouter == employeeHandler(RouterRequests)

SpecRouter == Init /\ [][NextRouter]_vars

\* the responses to the last requests, whoever wrote them
LastCalls == {c \in {gresp, wresp} : c.op # "none"}

\* C28: behind the router, a GET, PUT or DELETE whose path is /api/employee/
\* or /api/employee is answered 400, and the handlers that cut the id out of
\* the path are only run on paths long enough to be cut: none of them panics.
C28_MissingIdIs400 ==
    \A c \in LastCalls :
        /\ (c.method \in {"GET", "PUT", "DELETE"} /\ c.path \in {PathBase, PathPrefix}) =>
              c.status = 400
        /\ c.op \in {"get", "update", "delete"} =>
              (SliceInBounds(c.path) /\ c.status # NoStatus)

====
